---- MODULE Spec2Model ----
(***************************************************************************)
(* Model of the Index page of pixel-magic (src/src/pages/Index.tsx): the   *)
(* React state of the component, the closure of handleGenerate that the    *)
(* last render produced, the generation attempts in flight, and the        *)
(* tutorial dialog.                                                        *)
(***************************************************************************)
EXTENDS Integers, Sequences, FiniteSets, TLC

\* ---------------------------------------------------------------- bounds
\* Number of generation attempts (handleGenerate invocations that reach the
\* remote lookups) followed in one behaviour.
MaxCalls == 2
\* Number of generation attempts followed while the tutorial is walked through.
TutorialCalls == 1
\* Number of generation attempts followed to their end under fairness.
FairCalls == 1
\* Number of generation attempts followed while any credential is typed in.
CredentialCalls == 1
\* Number of handleResendVerification invocations followed.
MaxResends == 2
\* Number of verification lookups started by the auth listener that may be
\* outstanding at once.
MaxAuthChecks == 1

\* ------------------------------------------------------------ input sets
Whitespace == {" ", "\t"}

\* Prompts are sequences of characters.
Prompts == { <<>>, <<" ", "\t">>, <<" ", "a", " ">> }

\* Credentials: the empty string, one the client initializer accepts and one
\* it throws on.
Keys == {"", "sk-valid", "sk bad"}
\* The credentials typed in while generation attempts are followed.
TypedKeys == {"", "sk-valid"}

\* import.meta.env.VITE_TOGETHER_API_KEY: the deployment modelled sets none.
EnvApiKey == ""

\* initializeTogether(key) returns normally
Accepts(k) == k \in {"sk-valid"}

NoUser == "null"
Users == {"uid1"}

\* Values a rejected promise can carry: Error objects (isError) with a
\* message, and values that are not instances of Error.
Thrown ==
  { [isError |-> TRUE,  message |-> <<"Network", "down">>],
    [isError |-> TRUE,  message |-> <<"Error:", "Insufficient", "credits">>],
    [isError |-> TRUE,  message |-> <<"Email", "not", "verified", "yet">>],
    [isError |-> FALSE, message |-> <<"timeout">>] }

\* ------------------------------------------------------- pure operators
IsSpace(c) == c \in Whitespace

RECURSIVE TrimStart(_)
TrimStart(s) == IF s # <<>> /\ IsSpace(Head(s)) THEN TrimStart(Tail(s)) ELSE s

RECURSIVE TrimEnd(_)
TrimEnd(s) ==
  IF s # <<>> /\ IsSpace(s[Len(s)]) THEN TrimEnd(SubSeq(s, 1, Len(s) - 1)) ELSE s

\* prompt.trim()
Trim(s) == TrimEnd(TrimStart(s))

\* message.includes(phrase), on sequences of words
Includes(msg, phrase) ==
  \E i \in 0..(Len(msg) - Len(phrase)) :
    SubSeq(msg, i + 1, i + Len(phrase)) = phrase

\* LocalCheck testing the prompt without trimming it.
LocalCheckNoTrim(p, keySet) ==
  IF p = <<>> THEN "missing prompt"
  ELSE IF ~keySet THEN "missing credential"
  ELSE "ok"

\* The two local validation checks of handleGenerate, in order.
LocalCheck(p, keySet) ==
  IF Trim(p) = <<>> THEN "missing prompt"
  ELSE IF ~keySet THEN "missing credential"
  ELSE "ok"

\* GateDecision without the verification check.
GateDecisionNoVerify(verified, hasCredits) ==
  IF ~hasCredits THEN "insufficient credits" ELSE "proceed"

\* GateDecision testing the credits before the verification.
GateDecisionCreditsFirst(verified, hasCredits) ==
  IF ~hasCredits THEN "insufficient credits"
  ELSE IF ~verified THEN "unverified email"
  ELSE "proceed"

\* GateDecision without the credits check.
GateDecisionNoCredits(verified, hasCredits) ==
  IF ~verified THEN "unverified email" ELSE "proceed"

\* The decision taken once both lookups returned.
GateDecision(verified, hasCredits) ==
  IF ~verified THEN "unverified email"
  ELSE IF ~hasCredits THEN "insufficient credits"
  ELSE "proceed"

\* The catch block's condition for showing the generic failure toast.
ShowsFailureNotice(e) ==
  /\ e.isError
  /\ ~Includes(e.message, <<"Insufficient", "credits">>)
  /\ ~Includes(e.message, <<"Email", "not", "verified">>)

\* Prepend adding at the end instead.
PrependAtEnd(newImage, prevImages) == Append(prevImages, newImage)

\* setImages(prevImages => [newImage, ...prevImages])
Prepend(newImage, prevImages) == <<newImage>> \o prevImages

\* The artifact generateImage resolves with for prompt p: a fresh
\* identifier (the n-th artifact of the session gets n) and the prompt.
NewImage(n, p) == [id |-> n, prompt |-> p]

TutorialLen == 5

\* NextTutorial comparing against the length instead of the last index.
NextTutorialOffByOne(step, show) ==
  IF step < TutorialLen
    THEN [step |-> step + 1, show |-> show]
    ELSE [step |-> step, show |-> FALSE]

\* handleNextTutorial, as a function of the step and the dialog flag.
NextTutorial(step, show) ==
  IF step < TutorialLen - 1
    THEN [step |-> step + 1, show |-> show]
    ELSE [step |-> step, show |-> FALSE]

\* ------------------------------------------------------------- variables
VARIABLES
  prompt,              \* useState('')
  isGenerating,        \* useState(false)
  images,              \* useState<GeneratedImage[]>([])
  apiKey,              \* useState<string>('')
  isApiKeySet,         \* useState(false)
  isPurchaseModalOpen, \* useState(false)
  isEmailVerified,     \* useState<boolean | null>(null): "null", "true", "false"
  showTutorial,        \* useState(true)
  tutorialStep,        \* useState(0)
  currentUser,         \* auth.currentUser
  closure,             \* what the rendered handleGenerate captured
  calls,               \* the generation attempts in flight, in order of start
  started,             \* how many generation attempts have been started
  done,                \* <<r>>: the handleGenerate invocation that ended in
                       \* the step into this state, with what it did; else <<>>
  authChecks,          \* verification lookups of the auth listener in flight
  advances,            \* how often handleNextTutorial has run
  isVerificationLoading, \* useState(false)
  banner,              \* the verification banner as last rendered (followed
                       \* where resends are, in SpecResend)
  sends,               \* sendVerificationEmail calls awaited
  resends              \* how often handleResendVerification has run

vars == << prompt, isGenerating, images, apiKey, isApiKeySet,
           isPurchaseModalOpen, isEmailVerified, showTutorial, tutorialStep,
           currentUser, closure, calls, started, done, authChecks, advances,
           isVerificationLoading, banner, sends, resends >>

\* The state of the resend handler.
resendVars == << isVerificationLoading, sends, resends >>

\* The values handleGenerate's useCallback captures in a render.
Capture(p, keySet, busy) ==
  [prompt |-> p, isApiKeySet |-> keySet, isGenerating |-> busy]

\* renderVerificationBanner: whether the banner with the Resend button is
\* rendered, and the button's disabled prop.
Banner(user, verified, loading) ==
  [shown |-> user # NoUser /\ verified = "false", disabled |-> loading]

\* The isApiKeySet value the [apiKey] effect leaves when it runs for key k.
EffectKeySet(k, env, keySet) ==
  IF env # ""
    THEN (IF Accepts(env) THEN TRUE ELSE keySet)
    ELSE IF k # "" THEN Accepts(k) ELSE keySet

\* State after the first render and its effects.
Init ==
  /\ prompt = <<>>
  /\ isGenerating = FALSE
  /\ images = <<>>
  /\ apiKey = (IF EnvApiKey # "" /\ Accepts(EnvApiKey) THEN EnvApiKey ELSE "")
  /\ isApiKeySet = EffectKeySet("", EnvApiKey, FALSE)
  /\ isPurchaseModalOpen = FALSE
  /\ isEmailVerified = "null"
  /\ showTutorial = TRUE
  /\ tutorialStep = 0
  /\ currentUser = NoUser
  /\ closure = Capture(prompt, isApiKeySet, FALSE)
  /\ calls = <<>>
  /\ started = 0
  /\ done = <<>>
  /\ authChecks = 0
  /\ advances = 0
  /\ isVerificationLoading = FALSE
  /\ banner = Banner(currentUser, isEmailVerified, FALSE)
  /\ sends = 0
  /\ resends = 0

\* ------------------------------------------------- prompt and credential
\* handlePromptChange, and the render its state update causes.
HandlePromptChange(p) ==
  /\ p # prompt
  /\ prompt' = p
  /\ closure' = Capture(p, isApiKeySet, isGenerating)
  /\ done' = <<>>
  /\ UNCHANGED << resendVars, banner, advances, started, isGenerating, images, apiKey, isApiKeySet,
                  isPurchaseModalOpen, isEmailVerified, showTutorial,
                  tutorialStep, currentUser, calls, authChecks >>

\* handleApiKeyChange, the render, and the [apiKey] effect that follows it.
HandleApiKeyChange(k) ==
  /\ k # apiKey
  /\ apiKey' = (IF EnvApiKey # "" /\ Accepts(EnvApiKey) THEN EnvApiKey ELSE k)
  /\ isApiKeySet' = EffectKeySet(k, EnvApiKey, isApiKeySet)
  /\ closure' = Capture(prompt, isApiKeySet', isGenerating)
  /\ done' = <<>>
  /\ UNCHANGED << resendVars, banner, advances, started, prompt, isGenerating, images,
                  isPurchaseModalOpen, isEmailVerified, showTutorial,
                  tutorialStep, currentUser, calls, authChecks >>

\* React commits a pending render: handleGenerate is re-created from the
\* current state.  Until then the page still holds the handleGenerate of
\* the previous render, with the isGenerating value that render saw; an
\* invocation that arrives first runs that closure.
Render ==
  /\ closure # Capture(prompt, isApiKeySet, isGenerating)
  /\ closure' = Capture(prompt, isApiKeySet, isGenerating)
  /\ done' = <<>>
  /\ UNCHANGED << resendVars, banner, advances, started, prompt, isGenerating, images, apiKey, isApiKeySet,
                  isPurchaseModalOpen, isEmailVerified, showTutorial,
                  tutorialStep, currentUser, calls, authChecks >>

\* ----------------------------------------------------------------- auth
\* The user signs in; the onAuthStateChanged listener starts
\* checkVerification, which reads auth.currentUser and awaits the lookup.
SignIn(u) ==
  /\ currentUser = NoUser
  /\ authChecks < MaxAuthChecks
  /\ currentUser' = u
  /\ authChecks' = authChecks + 1
  /\ done' = <<>>
  /\ UNCHANGED << resendVars, banner, advances, started, prompt, isGenerating, images, apiKey, isApiKeySet,
                  isPurchaseModalOpen, isEmailVerified, showTutorial,
                  tutorialStep, closure, calls >>

\* The user signs out; the listener clears the cached flag.
SignOut ==
  /\ currentUser # NoUser
  /\ currentUser' = NoUser
  /\ isEmailVerified' = "null"
  /\ done' = <<>>
  /\ UNCHANGED << resendVars, banner, advances, started, prompt, isGenerating, images, apiKey, isApiKeySet,
                  isPurchaseModalOpen, showTutorial, tutorialStep, closure,
                  calls, authChecks >>

\* checkVerification resumes: the lookup returned v.
AuthCheckReturns(v) ==
  /\ authChecks > 0
  /\ authChecks' = authChecks - 1
  /\ isEmailVerified' = v
  /\ done' = <<>>
  /\ UNCHANGED << resendVars, banner, advances, started, prompt, isGenerating, images, apiKey, isApiKeySet,
                  isPurchaseModalOpen, showTutorial, tutorialStep, currentUser,
                  closure, calls >>

\* checkVerification resumes: the lookup threw; the error is only logged.
AuthCheckThrows ==
  /\ authChecks > 0
  /\ authChecks' = authChecks - 1
  /\ done' = <<>>
  /\ UNCHANGED << resendVars, banner, advances, started, prompt, isGenerating, images, apiKey, isApiKeySet,
                  isPurchaseModalOpen, isEmailVerified, showTutorial,
                  tutorialStep, currentUser, closure, calls >>

\* --------------------------------------------------------------- resend
\* React commits a pending render of the page: the verification banner is
\* rendered anew (and handleGenerate re-created).  Until then the page
\* shows the banner of the previous render, and a click hits that button.
RenderBanner ==
  /\ banner # Banner(currentUser, isEmailVerified, isVerificationLoading)
  /\ banner' = Banner(currentUser, isEmailVerified, isVerificationLoading)
  /\ closure' = Capture(prompt, isApiKeySet, isGenerating)
  /\ done' = <<>>
  /\ UNCHANGED << resendVars, advances, started, prompt, isGenerating, images,
                  apiKey, isApiKeySet, isPurchaseModalOpen, isEmailVerified,
                  showTutorial, tutorialStep, currentUser, calls, authChecks >>

\* handleResendVerification up to its return or its await, as a function
\* of auth.currentUser, the busy flag and the number of sends awaited: it
\* sets the flag, and either starts a send or shows the log-in notice and
\* clears the flag in its finally block.
Resend(user, loading, n) ==
  IF user # NoUser
    THEN [loading |-> TRUE, sends |-> n + 1, notices |-> <<>>]
    ELSE [loading |-> FALSE, sends |-> n, notices |-> <<"log in to resend">>]

\* A click on the Resend button of the rendered banner: the button is
\* there and not disabled, and onClick runs handleResendVerification.
HandleResendVerification ==
  /\ banner.shown /\ ~banner.disabled
  /\ resends < MaxResends
  /\ resends' = resends + 1
  /\ isVerificationLoading' = Resend(currentUser, isVerificationLoading, sends).loading
  /\ sends' = Resend(currentUser, isVerificationLoading, sends).sends
  /\ done' = <<>>
  /\ UNCHANGED << banner, advances, started, prompt, isGenerating, images,
                  apiKey, isApiKeySet, isPurchaseModalOpen, isEmailVerified,
                  showTutorial, tutorialStep, currentUser, closure, calls,
                  authChecks >>

\* sendVerificationEmail settles, by returning (ok) or by throwing (the
\* catch block only logs): the finally block clears the flag.
SendSettles(ok) ==
  /\ sends > 0
  /\ sends' = sends - 1
  /\ isVerificationLoading' = FALSE
  /\ done' = <<>>
  /\ UNCHANGED << banner, resends, advances, started, prompt, isGenerating,
                  images, apiKey, isApiKeySet, isPurchaseModalOpen,
                  isEmailVerified, showTutorial, tutorialStep, currentUser,
                  closure, calls, authChecks >>

\* ------------------------------------------------------------- tutorial
\* The Next/Finish button of the tutorial dialog.
HandleNextTutorial ==
  /\ showTutorial
  /\ tutorialStep' = NextTutorial(tutorialStep, showTutorial).step
  /\ showTutorial' = NextTutorial(tutorialStep, showTutorial).show
  /\ done' = <<>>
  /\ advances' = advances + 1
  /\ UNCHANGED << resendVars, banner, started, prompt, isGenerating, images,
                  apiKey, isApiKeySet, isPurchaseModalOpen, isEmailVerified,
                  currentUser, closure, calls, authChecks >>

\* The open dialog reports an open-change: onOpenChange={setShowTutorial}.
DialogOpenChange(open) ==
  /\ showTutorial
  /\ showTutorial' = open
  /\ done' = <<>>
  /\ UNCHANGED << resendVars, banner, advances, started, prompt, isGenerating, images, apiKey, isApiKeySet,
                  isPurchaseModalOpen, isEmailVerified, tutorialStep,
                  currentUser, closure, calls, authChecks >>

\* CreditPurchaseModal onClose.
ClosePurchaseModal ==
  /\ isPurchaseModalOpen
  /\ isPurchaseModalOpen' = FALSE
  /\ done' = <<>>
  /\ UNCHANGED << resendVars, banner, advances, started, prompt, isGenerating, images, apiKey, isApiKeySet,
                  isEmailVerified, showTutorial, tutorialStep, currentUser,
                  closure, calls, authChecks >>

\* ------------------------------------------------------- handleGenerate
\* A generation attempt:
\*   pc        "lookups" (awaiting Promise.all) or "generating" (awaiting
\*             generateImage);
\*   snap      the closure the invocation ran with;
\*   user      auth.currentUser as the invocation read it;
\*   verified, credits   the two lookups: "pending", "true", "false" or
\*             "thrown" ("none": not started; "unused": Promise.all
\*             rejected with the other lookup's error, and this one's
\*             outcome, whether it had returned or is still to come,
\*             reaches no code).
\* An attempt leaves calls when it ends.  NoAttempt is the record of an
\* invocation that starts no lookup.
\* (pc "done" is that of an invocation that has returned.)
NoAttempt ==
  [pc |-> "done", snap |-> Capture(<<>>, FALSE, FALSE), user |-> NoUser,
   verified |-> "none", credits |-> "none"]

\* What an ended invocation did (the record put in done):
\*   remote    whether it reached the remote lookups (an attempt);
\*   gen       the generation call: "none", "ok" or "thrown";
\*   error     <<e>> for the value the catch block received, else <<>>;
\*   notices   the toasts it showed, in order;
\*   purchase  how often it called setIsPurchaseModalOpen(true);
\*   setBusy, cleared   how often it called setIsGenerating(true) / (false).
Ended(remote, c) ==
  [remote |-> remote, snap |-> c.snap, user |-> c.user, verified |-> c.verified,
   credits |-> c.credits, gen |-> "none", error |-> <<>>, notices |-> <<>>,
   purchase |-> 0, setBusy |-> 0, cleared |-> 0]

Bool(str) == str = "true"

InFlight == DOMAIN calls

\* calls without its a-th attempt.
Remove(seq, a) == SubSeq(seq, 1, a - 1) \o SubSeq(seq, a + 1, Len(seq))

\* The synchronous part of handleGenerate, up to its return or first await.
HandleGenerate ==
  LET r == Ended(FALSE, [NoAttempt EXCEPT !.snap = closure])
      check == LocalCheck(closure.prompt, closure.isApiKeySet)
  IN
    /\ IF closure.isGenerating
         THEN \* Prevent multiple clicks
              /\ done' = <<r>>
              /\ UNCHANGED << isGenerating, calls, started >>
       ELSE IF check # "ok"
         THEN /\ done' = <<[r EXCEPT !.notices = <<check>>]>>
              /\ UNCHANGED << isGenerating, calls, started >>
       ELSE IF currentUser = NoUser
         THEN /\ done' = <<[r EXCEPT !.notices = <<"not authenticated">>,
                                     !.setBusy = 1, !.cleared = 1]>>
              /\ isGenerating' = FALSE
              /\ UNCHANGED << calls, started >>
       ELSE /\ started < MaxCalls
            /\ started' = started + 1
            /\ calls' = Append(calls, [pc |-> "lookups", snap |-> closure,
                                      user |-> currentUser,
                                      verified |-> "pending",
                                      credits |-> "pending"])
            /\ isGenerating' = TRUE
            /\ done' = <<>>
    /\ UNCHANGED << resendVars, banner, advances, prompt, images, apiKey, isApiKeySet,
                    isPurchaseModalOpen, isEmailVerified, showTutorial,
                    tutorialStep, currentUser, closure, authChecks >>

\* Caught without the finally block.
CaughtNoFinally(a, c, gen, e) ==
  /\ calls' = Remove(calls, a)
  /\ done' = <<[Ended(TRUE, c) EXCEPT
                  !.gen = gen, !.error = <<e>>,
                  !.notices = IF ShowsFailureNotice(e) THEN <<"failure">> ELSE <<>>,
                  !.setBusy = 1]>>
  /\ UNCHANGED << resendVars, banner, advances, started, isGenerating, prompt, images, apiKey, isApiKeySet,
                  isPurchaseModalOpen, isEmailVerified, showTutorial,
                  tutorialStep, currentUser, closure, authChecks >>

\* Caught emptying the gallery on failure.
CaughtDropsGallery(a, c, gen, e) ==
  /\ calls' = Remove(calls, a)
  /\ done' = <<[Ended(TRUE, c) EXCEPT
                  !.gen = gen, !.error = <<e>>,
                  !.notices = IF ShowsFailureNotice(e) THEN <<"failure">> ELSE <<>>,
                  !.setBusy = 1, !.cleared = 1]>>
  /\ isGenerating' = FALSE
  /\ images' = <<>>
  /\ UNCHANGED << resendVars, banner, advances, started, prompt, apiKey, isApiKeySet,
                  isPurchaseModalOpen, isEmailVerified, showTutorial,
                  tutorialStep, currentUser, closure, authChecks >>

\* Promise.all rejected with e, or generateImage did: catch, then finally.
\* c is the attempt's record at that moment.
Caught(a, c, gen, e) ==
  /\ calls' = Remove(calls, a)
  /\ done' = <<[Ended(TRUE, c) EXCEPT
                  !.gen = gen, !.error = <<e>>,
                  !.notices = IF ShowsFailureNotice(e) THEN <<"failure">> ELSE <<>>,
                  !.setBusy = 1, !.cleared = 1]>>
  /\ isGenerating' = FALSE
  /\ UNCHANGED << resendVars, banner, advances, started, prompt, images, apiKey, isApiKeySet,
                  isPurchaseModalOpen, isEmailVerified, showTutorial,
                  tutorialStep, currentUser, closure, authChecks >>

\* Promise.all fulfilled with [v, h]: the code after the await, up to its
\* return or the await of generateImage.
AfterLookups(a, v, h) ==
  LET c == [calls[a] EXCEPT !.verified = v, !.credits = h]
      d == GateDecision(Bool(v), Bool(h))
  IN
    /\ isEmailVerified' = v
    /\ IF d = "unverified email"
         THEN /\ calls' = Remove(calls, a)
              /\ done' = <<[Ended(TRUE, c) EXCEPT !.notices = <<d>>,
                                               !.setBusy = 1, !.cleared = 2]>>
              /\ isGenerating' = FALSE
              /\ UNCHANGED isPurchaseModalOpen
       ELSE IF d = "insufficient credits"
         THEN /\ calls' = Remove(calls, a)
              /\ done' = <<[Ended(TRUE, c) EXCEPT !.notices = <<d>>,
                                               !.purchase = 1,
                                               !.setBusy = 1, !.cleared = 2]>>
              /\ isPurchaseModalOpen' = TRUE
              /\ isGenerating' = FALSE
       ELSE /\ calls' = [calls EXCEPT ![a] = [c EXCEPT !.pc = "generating"]]
            /\ done' = <<>>
            /\ UNCHANGED << isGenerating, isPurchaseModalOpen >>
    /\ UNCHANGED << resendVars, banner, advances, started, prompt, images, apiKey, isApiKeySet,
                    showTutorial, tutorialStep, currentUser, closure,
                    authChecks >>

\* One lookup returned and the other is still pending.  (When a lookup
\* settles Promise.all, the code after the await runs in the same turn of
\* the event loop, so settling and resuming are one step.)
StillWaiting(c) ==
  /\ calls' = c
  /\ done' = <<>>
  /\ UNCHANGED << resendVars, banner, advances, started, prompt, isGenerating, images, apiKey, isApiKeySet,
                  isPurchaseModalOpen, isEmailVerified, showTutorial,
                  tutorialStep, currentUser, closure, authChecks >>

\* checkEmailVerified(user.uid) returns v for attempt a.
VerifiedReturns(a, v) ==
  /\ a \in DOMAIN calls
  /\ calls[a].pc = "lookups"
  /\ calls[a].verified = "pending"
  /\ IF calls[a].credits = "pending"
       THEN StillWaiting([calls EXCEPT ![a].verified = v])
       ELSE AfterLookups(a, v, calls[a].credits)

\* checkEmailVerified(user.uid) throws e for attempt a.
VerifiedThrows(a, e) ==
  /\ a \in DOMAIN calls
  /\ calls[a].pc = "lookups"
  /\ calls[a].verified = "pending"
  /\ Caught(a, [calls[a] EXCEPT !.verified = "thrown", !.credits = "unused"],
            "none", e)

\* hasEnoughCredits(user.uid) returns h for attempt a.
CreditsReturns(a, h) ==
  /\ a \in DOMAIN calls
  /\ calls[a].pc = "lookups"
  /\ calls[a].credits = "pending"
  /\ IF calls[a].verified = "pending"
       THEN StillWaiting([calls EXCEPT ![a].credits = h])
       ELSE AfterLookups(a, calls[a].verified, h)

\* hasEnoughCredits(user.uid) throws e for attempt a.
CreditsThrows(a, e) ==
  /\ a \in DOMAIN calls
  /\ calls[a].pc = "lookups"
  /\ calls[a].credits = "pending"
  /\ Caught(a, [calls[a] EXCEPT !.credits = "thrown", !.verified = "unused"],
            "none", e)

\* generateImage(prompt) resolved: prepend, success toast, finally.
GenerationSucceeds(a) ==
  /\ a \in DOMAIN calls
  /\ calls[a].pc = "generating"
  /\ images' = Prepend(NewImage(Len(images) + 1, calls[a].snap.prompt), images)
  /\ calls' = Remove(calls, a)
  /\ done' = <<[Ended(TRUE, calls[a]) EXCEPT !.gen = "ok",
                                          !.notices = <<"success">>,
                                          !.setBusy = 1, !.cleared = 1]>>
  /\ isGenerating' = FALSE
  /\ UNCHANGED << resendVars, banner, advances, started, prompt, apiKey, isApiKeySet,
                  isPurchaseModalOpen, isEmailVerified, showTutorial,
                  tutorialStep, currentUser, closure, authChecks >>

\* generateImage(prompt) rejected with e.
GenerationFails(a, e) ==
  /\ a \in DOMAIN calls
  /\ calls[a].pc = "generating"
  /\ Caught(a, calls[a], "thrown", e)

\* ------------------------------------------------------- specification
Calls == 1..MaxCalls

Next ==
  \/ \E p \in Prompts : HandlePromptChange(p)
  \/ \E k \in TypedKeys : HandleApiKeyChange(k)
  \/ Render
  \/ \E u \in Users : SignIn(u)
  \/ SignOut
  \/ \E v \in {"true", "false"} : AuthCheckReturns(v)
  \/ AuthCheckThrows
  \/ ClosePurchaseModal
  \/ HandleGenerate
  \/ \E a \in Calls, v \in {"true", "false"} : VerifiedReturns(a, v)
  \/ \E a \in Calls, e \in Thrown : VerifiedThrows(a, e)
  \/ \E a \in Calls, h \in {"true", "false"} : CreditsReturns(a, h)
  \/ \E a \in Calls, e \in Thrown : CreditsThrows(a, e)
  \/ \E a \in Calls : GenerationSucceeds(a)
  \/ \E a \in Calls, e \in Thrown : GenerationFails(a, e)

Spec == Init /\ [][Next]_vars

\* Every external call settles, and React commits every pending render.
Fairness ==
  /\ WF_vars(Render)
  /\ \A a \in Calls :
       /\ WF_vars(\E v \in {"true", "false"} : VerifiedReturns(a, v))
       /\ WF_vars(\E h \in {"true", "false"} : CreditsReturns(a, h))
       /\ WF_vars(GenerationSucceeds(a))

FairSpec == Init /\ [][Next /\ started' <= FairCalls]_vars /\ Fairness

\* The page with its tutorial dialog.
NextTutorialPage ==
  \/ HandleNextTutorial
  \/ \E open \in BOOLEAN : DialogOpenChange(open)
  \/ Next /\ started' <= TutorialCalls

SpecTutorial == Init /\ [][NextTutorialPage]_vars

\* The page with every credential typed into the key input, the one the
\* initializer throws on included.
NextCredentialPage ==
  \/ \E k \in Keys : HandleApiKeyChange(k)
  \/ Next /\ started' <= CredentialCalls

SpecCredential == Init /\ [][NextCredentialPage]_vars

\* The verification banner with its Resend button, and the auth listener.
NextResendPage ==
  \/ HandleResendVerification
  \/ \E ok \in BOOLEAN : SendSettles(ok)
  \/ RenderBanner
  \/ \E u \in Users : SignIn(u)
  \/ SignOut
  \/ \E v \in {"true", "false"} : AuthCheckReturns(v)
  \/ AuthCheckThrows

SpecResend == Init /\ [][NextResendPage]_vars

\* ================================================================ claims
\* The invocation that ended in the step into the current state, if any.
EndedNow == { done[i] : i \in DOMAIN done }

Blank(p) == Trim(p) = <<>>

\* C1: a generation call is in progress or was made only for an invocation
\* whose closure had a non-blank prompt and the credential flag set, that
\* read a signed-in identity, and whose own two lookups both returned true.
GenerationOnlyAfterAllChecks ==
  /\ \A a \in DOMAIN calls :
       calls[a].pc = "generating" =>
         /\ ~Blank(calls[a].snap.prompt)
         /\ calls[a].snap.isApiKeySet
         /\ calls[a].user \in Users
         /\ calls[a].verified = "true"
         /\ calls[a].credits = "true"
  /\ \A r \in EndedNow :
       r.gen # "none" =>
         /\ ~Blank(r.snap.prompt)
         /\ r.snap.isApiKeySet
         /\ r.user \in Users
         /\ r.verified = "true"
         /\ r.credits = "true"

\* C1 witness: a generation call is awaited.
GenerationStarted == \E a \in DOMAIN calls : calls[a].pc = "generating"

\* The rejection the fixed order of checks prescribes for an ended
\* invocation r that ran the checks and whose lookups, if made, returned.
FirstFailingCheck(r) ==
  IF Blank(r.snap.prompt) THEN "missing prompt"
  ELSE IF ~r.snap.isApiKeySet THEN "missing credential"
  ELSE IF ~r.remote /\ currentUser = NoUser THEN "not authenticated"
  ELSE IF r.verified = "false" THEN "unverified email"
  ELSE IF r.credits = "false" THEN "insufficient credits"
  ELSE "none"

\* C2: an invocation that runs the checks (its closure is not busy), none
\* of whose lookups throws, and for which some check fails, shows exactly
\* one notice: the rejection of the first failing check in the order
\* prompt, credential, identity, verification, credits.
RejectionIsFirstFailingCheck ==
  \A r \in EndedNow :
    (~r.snap.isGenerating /\ r.error = <<>> /\ FirstFailingCheck(r) # "none")
      => r.notices = <<FirstFailingCheck(r)>>

\* C2 witness: both lookups returned false and the unverified-email
\* rejection was the one reported.
UnverifiedReportedBeforeCredits ==
  \E r \in EndedNow :
    /\ r.verified = "false"
    /\ r.credits = "false"
    /\ r.notices = <<"unverified email">>

\* C3: an invocation whose prompt is empty or whitespace-only starts no
\* lookup and no generation call, and, unless it is the no-op of a busy
\* closure, shows exactly the missing-prompt notice.
BlankPromptRejectedLocally ==
  /\ \A a \in InFlight : ~Blank(calls[a].snap.prompt)
  /\ \A r \in EndedNow :
       Blank(r.snap.prompt) =>
         /\ ~r.remote
         /\ r.verified = "none" /\ r.credits = "none" /\ r.gen = "none"
         /\ (~r.snap.isGenerating => r.notices = <<"missing prompt">>)

\* C3 witness: a whitespace-only prompt was rejected although the
\* credential was ready and an identity signed in.
WhitespacePromptRejected ==
  \E r \in EndedNow :
    /\ r.snap.prompt = <<" ", "\t">>
    /\ r.snap.isApiKeySet
    /\ currentUser \in Users
    /\ r.notices = <<"missing prompt">>

\* C4: at most one generation attempt is in flight at a time.
AtMostOneInFlight == Cardinality(InFlight) <= 1

\* C5: an attempt whose verification lookup returned true and whose
\* credits lookup returned false opens the purchase flow exactly once and
\* makes no generation call.
InsufficientCreditsOpensPurchase ==
  \A r \in EndedNow :
    (r.remote /\ r.verified = "true" /\ r.credits = "false") =>
      /\ r.purchase = 1
      /\ r.gen = "none"
      /\ r.notices = <<"insufficient credits">>
      /\ isPurchaseModalOpen

\* C5 witness: such an attempt has ended.
InsufficientCreditsEnded ==
  \E r \in EndedNow :
    /\ r.remote /\ r.verified = "true" /\ r.credits = "false"
    /\ ~Blank(r.snap.prompt) /\ r.snap.isApiKeySet /\ r.user \in Users

\* C6: a step in which a generation call succeeds puts the new artifact
\* (made for the attempt's prompt, with an identifier no earlier element
\* has) in front of the gallery and keeps every earlier element, in order.
SuccessIsPurePrepend ==
  [][ \A r \in EndedNow' :
        r.gen = "ok"
          => /\ Len(images') = Len(images) + 1
             /\ images'[1].prompt = r.snap.prompt
             /\ \A i \in 1..Len(images) : images'[1].id # images[i].id
             /\ \A i \in 1..Len(images) : images'[i + 1] = images[i] ]_vars

\* C6 witness: a second artifact was put in front of a first one.
SecondImagePrepended ==
  /\ Len(images) = 2
  /\ \E r \in EndedNow : r.gen = "ok" /\ images[1].prompt = r.snap.prompt
  /\ images[1] # images[2]

\* C7: when no attempt is in flight the busy flag is false; an invocation
\* that set the flag has cleared it when it ends; the attempts in flight
\* all end; and when no attempt is in flight the handler is eventually
\* rendered with busy false.
BusyFlagAlwaysCleared ==
  /\ [](InFlight = {} => ~isGenerating)
  /\ [](\A r \in EndedNow : r.setBusy > 0 => (r.cleared > 0 /\ ~isGenerating))
  /\ (InFlight # {}) ~> (InFlight = {})
  /\ (InFlight = {}) ~> (~closure.isGenerating)

\* C7 witness: an attempt has ended in the catch block and the page is idle.
FailedAttemptLeftIdle ==
  /\ InFlight = {}
  /\ ~isGenerating
  /\ \E r \in EndedNow : r.remote /\ r.error # <<>> /\ r.cleared > 0

\* C8: after n advances from the initial state the step is n for n up to
\* 4 and stays 4 afterwards; an advance below step 4 adds one to the step
\* and leaves the dialog shown; an advance at step 4 closes the dialog and
\* leaves the step at 4.
TutorialAdvances ==
  /\ [](tutorialStep = (IF advances < 4 THEN advances ELSE 4))
  /\ [][ advances' # advances =>
           IF tutorialStep < 4
             THEN tutorialStep' = tutorialStep + 1 /\ showTutorial' /\ showTutorial
             ELSE tutorialStep' = 4 /\ ~showTutorial' ]_vars

\* C8 witness: the fifth advance has closed the dialog at step 4.
TutorialFinished == advances = 5 /\ tutorialStep = 4 /\ ~showTutorial

\* C9: the step never decreases or jumps, and the dialog flag changes only
\* from shown to dismissed and only in a step that is an advance taken at
\* step 4.
OnlyAdvanceChangesTutorial ==
  [][ /\ tutorialStep' \in {tutorialStep, tutorialStep + 1}
      /\ tutorialStep' # tutorialStep => advances' = advances + 1
      /\ showTutorial' # showTutorial =>
           (showTutorial /\ tutorialStep = 4 /\ advances' = advances + 1) ]_vars

\* C10: an attempt that ends in the catch block shows no notice when the
\* caught value's message contains one of the two phrases, and exactly one
\* failure notice for every other caught value.
EveryOtherFailureIsNotified ==
  \A r \in EndedNow :
    r.error # <<>> =>
      r.notices =
        (IF \/ Includes(r.error[1].message, <<"Insufficient", "credits">>)
            \/ Includes(r.error[1].message, <<"Email", "not", "verified">>)
           THEN <<>> ELSE <<"failure">>)


\* C11: the gallery changes only in a step in which a generation call
\* succeeds; a step in which an invocation ends in any other way (busy
\* no-op, one of the five rejections, a thrown lookup, a thrown generation
\* call) leaves the gallery exactly as it was.
GalleryChangesOnlyOnSuccess ==
  [][ /\ images' # images => \E r \in EndedNow' : r.gen = "ok"
      /\ \A r \in EndedNow' : r.gen # "ok" => images' = images ]_vars

\* C11 witness: a generation call failed while the gallery held an artifact.
FailedGenerationKeptGallery ==
  /\ Len(images) = 1
  /\ \E r \in EndedNow : r.gen = "thrown" /\ r.error # <<>>


\* C12: with no environment key, the credential-ready flag is true only if
\* the current credential string is non-empty and the initializer accepted
\* it.
ReadyOnlyForAcceptedKey ==
  (EnvApiKey = "" /\ isApiKeySet) => (apiKey # "" /\ Accepts(apiKey))


\* C13: at most one sendVerificationEmail call is awaited at a time, and
\* the resend busy flag is false after every step in which a
\* handleResendVerification invocation completes: its send settled, by
\* returning or by throwing, or it found no identity signed in.
ResendIsExclusive ==
  /\ [](sends <= 1)
  /\ [][ (sends' < sends \/ (resends' # resends /\ sends' = sends))
           => ~isVerificationLoading' ]_vars


\* C14: an attempt starts its two lookups together, and no decision of the
\* attempt is taken while one of them has not settled: the generation call
\* is started only after both returned, and a step in which an attempt
\* ends while awaiting the lookups (with a rejection notice, a failure
\* notice, the purchase flow, the busy flag cleared) is the step in which
\* the second of its lookups settles, by returning or by throwing.
DecisionAfterBothLookupsSettled ==
  /\ [](\A a \in InFlight :
         /\ calls[a].verified # "none" /\ calls[a].credits # "none"
         /\ calls[a].pc = "generating" =>
              (calls[a].verified # "pending" /\ calls[a].credits # "pending"))
  /\ [][ \A r \in EndedNow' :
          (r.remote /\ r.gen = "none") =>
            \E a \in InFlight :
              /\ calls' = Remove(calls, a)
              /\ calls[a].snap = r.snap
              /\ calls[a].pc = "lookups"
              /\ ~(calls[a].verified = "pending" /\ calls[a].credits = "pending")
      ]_vars


\* C15: whenever no identity is signed in and no callback is pending (no
\* verification lookup of the auth listener and no generation attempt is
\* in flight), the cached email-verified flag is null.
SignedOutFlagIsNull ==
  (currentUser = NoUser /\ authChecks = 0 /\ InFlight = {})
    => isEmailVerified = "null"

====
